---- MODULE Spec2Model ----
(***************************************************************************)
(* Wallet balance aggregation: WalletService over a transactional store    *)
(* (wallets, balances, balance_history), the Redis freshness cache and the *)
(* chain adapters.  Every request runs in its own worker with its own      *)
(* database session; a session's writes reach the tables at its commit.    *)
(*                                                                         *)
(* Representation: a Decimal amount is the integer number of smallest      *)
(* units, a timestamp is the reading of the clock `now`, None is -1.       *)
(***************************************************************************)
EXTENDS Integers, Sequences, FiniteSets, TLC

\* ---------------------------------------------------------------- bounds
MaxWallets == 2      \* wallet ids ever handed out
MaxRequests == 3     \* requests ever started
MaxTime == 302       \* the clock stops here: one lapse of the TTL and MaxRequests commits

\* ------------------------------------------------------ program constants
BALANCES_TTL == 300  \* cache.set(cache_key, True, ttl=300)

None == -1

Procs == {1, 2}            \* request workers, each with its own session
WalletIds == 1..MaxWallets
Amounts == {0, 1, 2}       \* on-chain amounts the adapter may read
Prices == {None, 2}        \* what get_price may answer
Addresses == {"0xaa", "0xAa", "So1"}
Chains == {"ethereum", "solana", "cosmos"}

NoWallet == [id |-> 0, address |-> "", chain |-> ""]
NoRet == [kind |-> "none", val |-> {}]

VARIABLES
    wallets,        \* table wallets: set of [id, address, chain]
    balances,       \* table balances: set of Balance rows
    history,        \* table balance_history: set of BalanceHistory rows
    cache,          \* Redis: wallet id -> expiry time of wallet:{id}:balances, 0 = no key
    redis,          \* "up": the client is set and the server answers; "down": no client, or the server errors
    now,            \* the clock read by datetime.utcnow() and by the key expiry
    nextId,         \* next primary key of balances / balance_history rows
    nextWallet,     \* next wallet id
    requests,       \* per worker: requests taken so far
    pc,             \* per worker: position in its handler
    wallet,         \* per worker: the wallet row loaded by the handler
    force,          \* per worker: force_refresh of the running fetch
    token_balances, \* per worker: adapter result not yet stored (symbol -> amount pairs)
    pending,        \* per worker: the session's uncommitted writes, in order
    calls,          \* per worker: chain adapter calls issued by the running request
    ret,            \* per worker: what the handler returned / raised
    call,           \* the adapter or oracle function the client called, with its arguments
    left,           \* the retried operations the running function still makes; the head is in progress
    tries,          \* what each attempt of the operation in progress (or last finished) met
    decision,       \* what the retry wrapper did after the last attempt
    sent,           \* network requests the running call has sent
    result,         \* results the running function has gathered
    outcome,        \* what the call returned / raised
    price_cache,    \* Redis: symbol -> price and expiry of price:{symbol}:usd, expires 0 = no key
    asked,          \* the raw chain answer handed to an adapter's unit conversion
    computed        \* what the conversion computed from it

tables == <<wallets, balances, history>>
locals == <<wallet, force, token_balances, pending, calls, ret>>
app == <<wallets, balances, history, cache, redis, now, nextId, nextWallet,
          requests, pc, wallet, force, token_balances, pending, calls, ret>>
net == <<call, left, tries, decision, sent, result, outcome, price_cache>>
conv == <<asked, computed>>
vars == <<app, net, conv>>

\* ------------------------------------------------------------ Redis cache
\* mutant: the entry is served although the store does not answer
CacheGetStale(key) == cache[key] > now

\* RedisCache.get: None without client or on error, else the stored flag while the key lives
CacheGet(key) ==
    IF redis # "up" THEN FALSE
    ELSE cache[key] > now

\* RedisCache.set: setex(key, ttl, value) when the store answers, else no-op
CacheSet(key, ttl) ==
    IF redis # "up" THEN cache
    ELSE [cache EXCEPT ![key] = now + ttl]

\* RedisCache.delete
CacheDelete(key) ==
    IF redis # "up" THEN cache
    ELSE [cache EXCEPT ![key] = 0]

\* RedisCache.clear_pattern("wallet:*")
CacheClearPattern ==
    IF redis # "up" THEN cache
    ELSE [k \in WalletIds |-> 0]

\* what set, delete and clear_pattern return: True when the store took the call
CacheAccepts == redis = "up"

\* ------------------------------------------------------------ adapters
\* EthereumService.get_wallet_balances / SolanaService.get_wallet_balances:
\* the native balance when it is positive, nothing else
NativeSymbol(chain) == IF chain = "ethereum" THEN "ETH" ELSE "SOL"

\* mutant: a native balance of 0 is reported like any other
AdapterBalancesWithZero(chain, amount) ==
    <<[symbol |-> NativeSymbol(chain), balance |-> amount]>>

\* mutant: every wallet is sent to the Ethereum adapter
AdapterBalancesEthereum(chain, amount) ==
    IF amount > 0 THEN <<[symbol |-> NativeSymbol("ethereum"), balance |-> amount]>>
    ELSE <<>>

\* the adapter of the chain is called: its native symbol and amount
AdapterBalances(chain, amount) ==
    IF amount > 0 THEN <<[symbol |-> NativeSymbol(chain), balance |-> amount]>>
    ELSE <<>>

\* mutant: a missing price is stored as the value 0
UsdValueZero(balance, usd_price) ==
    IF usd_price # None /\ usd_price # 0 THEN balance * usd_price ELSE 0

\* usd_value = balance * usd_price if usd_price else None
UsdValue(balance, usd_price) ==
    IF usd_price # None /\ usd_price # 0 THEN balance * usd_price ELSE None

\* ------------------------------------------------------------ store
WalletById(id) == {w \in wallets : w.id = id}
BalancesOf(id) == {b \in balances : b.wallet_id = id}
HistoryOf(id) == {h \in history : h.wallet_id = id}

\* db.query(Balance).filter(wallet_id, token_symbol, token_address == None)
ExistingBalances(id, symbol) ==
    {b \in balances : b.wallet_id = id /\ b.token_symbol = symbol /\ b.token_address = None}

\* uix_balance_wallet_token: a unique constraint compares NULLs as distinct, so
\* only rows whose token_address is set can collide
UniqueViolation(rows, wid, symbol, address) ==
    /\ address # None
    /\ \E b \in rows : b.wallet_id = wid /\ b.token_symbol = symbol /\ b.token_address = address

\* ------------------------------------------------------------ session
\* A session's pending writes are a sequence of
\*   [symbol, existing, balance, usd_price, usd_value, at]
\* one entry per loop iteration: the Balance update (existing = id of the row
\* found) or insert (existing = None), and the BalanceHistory insert.

Inserts(sess) == {i \in 1..Len(sess) : sess[i].existing = None}
Updates(sess) == {i \in 1..Len(sess) : sess[i].existing # None}

HistoryId(first, i) == first + 2 * (i - 1)
BalanceId(first, i) == first + 2 * (i - 1) + 1

\* The Balance rows the flush writes: the loaded row with its new values, or a new row
StoredRow(sess, wid, first, i) ==
    [id |-> IF sess[i].existing = None THEN BalanceId(first, i) ELSE sess[i].existing,
     wallet_id |-> wid,
     token_symbol |-> sess[i].symbol,
     token_address |-> None,
     balance |-> sess[i].balance,
     usd_value |-> sess[i].usd_value,
     last_updated |-> sess[i].at]

StoredRows(sess, wid, first) == {StoredRow(sess, wid, first, i) : i \in 1..Len(sess)}

HistoryRow(sess, wid, first, i) ==
    [id |-> HistoryId(first, i),
     wallet_id |-> wid,
     token_symbol |-> sess[i].symbol,
     token_address |-> None,
     balance |-> sess[i].balance,
     usd_value |-> sess[i].usd_value,
     recorded_at |-> sess[i].at]

\* mutant: a history row is written only for a new row or a changed amount
HistoryRowsOnChange(sess, wid, first) ==
    {HistoryRow(sess, wid, first, i) :
        i \in {j \in 1..Len(sess) :
                  ~ \E b \in balances : b.id = sess[j].existing /\ b.balance = sess[j].balance}}

HistoryRows(sess, wid, first) == {HistoryRow(sess, wid, first, i) : i \in 1..Len(sess)}

\* mutant: the flush takes every write
CommitFailsNever(sess, wid) == FALSE

\* What makes the flush at db.commit() raise: the wallet row is gone (foreign
\* key), a loaded Balance row is gone (UPDATE matches no row), or the unique
\* constraint rejects an insert
CommitFails(sess, wid) ==
    /\ Len(sess) > 0
    /\ \/ WalletById(wid) = {}
       \/ \E i \in Updates(sess) : ~ \E b \in balances : b.id = sess[i].existing
       \/ \E i \in Inserts(sess) : UniqueViolation(balances, wid, sess[i].symbol, None)

\* mutant: the history rows are written, the Balance rows are not
CommittedHistoryOnly(sess, wid) ==
    [balances |-> balances,
     history |-> history \cup HistoryRows(sess, wid, nextId)]

\* mutant: the history row of a symbol is replaced instead of appended
CommittedHistoryUpsert(sess, wid) ==
    [balances |-> {b \in balances : ~ \E i \in Updates(sess) : sess[i].existing = b.id}
                      \cup StoredRows(sess, wid, nextId),
     history |-> {h \in history : ~ \E i \in 1..Len(sess) :
                        h.wallet_id = wid /\ h.token_symbol = sess[i].symbol}
                      \cup HistoryRows(sess, wid, nextId)]

\* mutant: the commit replaces the whole balances table by the rows of the fetch
CommittedReplacing(sess, wid) ==
    [balances |-> StoredRows(sess, wid, nextId),
     history |-> history \cup HistoryRows(sess, wid, nextId)]

\* The store after db.commit(): every pending write applied at once
Committed(sess, wid) ==
    [balances |-> {b \in balances : ~ \E i \in Updates(sess) : sess[i].existing = b.id}
                      \cup StoredRows(sess, wid, nextId),
     history |-> history \cup HistoryRows(sess, wid, nextId)]

\* mutant: the except branch leaves the flushed writes in the tables
RolledBackKeepsWrites(sess, wid) == Committed(sess, wid)

\* mutant: the except branch clears the wallet's current rows
RolledBackClearsRows(sess, wid) ==
    [balances |-> balances \ BalancesOf(wid), history |-> history]

\* The store after db.rollback(): every pending write dropped
RolledBack(sess, wid) ==
    [balances |-> balances, history |-> history]

\* mutant: the except branch invalidates the key
CacheAfterErrorInvalidates(key) == CacheDelete(key)

\* mutant: the except branch marks the key fresh
CacheAfterErrorMarksFresh(key) == CacheSet(key, BALANCES_TTL)

\* The cache after the except branch: it holds no cache call
CacheAfterError(key) == cache

\* mutant: the cache is never used
UseCachedNever(force_refresh, cached) == FALSE

\* mutant: force_refresh is ignored
UseCachedIgnoresForce(force_refresh, cached) == cached

\* mutant: a fetch that is not forced never goes to the chain
UseCachedAlways(force_refresh, cached) == ~force_refresh

\* if not force_refresh: cached_balances = cache.get(cache_key); if cached_balances: return ...
UseCached(force_refresh, cached) == ~force_refresh /\ cached

\* ------------------------------------------- chain adapters, price oracle
MAX_ATTEMPTS == 3    \* @retry(stop=stop_after_attempt(3), ...)
PRICE_TTL == 300     \* cache.set(cache_key, float(price), ttl=300)

Services == {"ethereum", "solana", "cosmos", "starknet"}
Failures == {"timeout", "http_error", "malformed"}   \* what a request may meet instead of an answer
Transient == {"timeout", "http_error"}               \* transport errors: timeout, 5xx / connection
TOKEN_MAP == {"ETH", "SOL"}                          \* symbols with a CoinGecko id
PriceSymbols == {"ETH", "eth", "SOL", "XYZ"}
SymbolLists == {<<"ETH">>, <<"eth">>, <<"XYZ">>, <<"ETH", "SOL">>, <<"eth", "XYZ">>}
UsdQuotes == {0, 2}                                  \* "usd" of an id in the answer; 0: missing or zero

\* str.upper()
Upper(symbol) == IF symbol = "eth" THEN "ETH" ELSE symbol

NoCall == [service |-> "none", fn |-> "", configured |-> TRUE, valid |-> TRUE, symbols |-> <<>>]
NoOutcome == [kind |-> "none", val |-> None]
NoEntry == [price |-> None, expires |-> 0]

NoAnswer == [kind |-> "none", coefficient |-> 0, exponent |-> 0, limbs |-> <<>>]
NoQuery == [service |-> "none", token |-> "", raw |-> 0, words |-> <<>>]

\* no conversion asked for yet
Unasked ==
    /\ asked = NoQuery
    /\ computed = NoAnswer

\* no adapter or oracle call made yet, no price key set
Quiet ==
    /\ call = NoCall
    /\ left = <<>>
    /\ tries = <<>>
    /\ decision = "none"
    /\ sent = 0
    /\ result = {}
    /\ outcome = NoOutcome
    /\ price_cache = [k \in PriceSymbols |-> NoEntry]

TypeOK ==
    /\ \A w \in wallets : w.id \in WalletIds /\ w.address \in Addresses /\ w.chain \in Chains
    /\ \A b \in balances : b.balance \in Amounts /\ b.last_updated \in 0..MaxTime
    /\ \A h \in history : h.balance \in Amounts /\ h.recorded_at \in 0..MaxTime
    /\ cache \in [WalletIds -> 0..(MaxTime + BALANCES_TTL)]
    /\ redis \in {"up", "down"}
    /\ now \in 0..MaxTime
    /\ requests \in [Procs -> 0..MaxRequests]
    /\ pc \in [Procs -> {"idle", "cache_check", "adapter", "store", "committed",
                         "del_cache", "del_commit"}]
    /\ call.service \in Services \cup {"none", "price"}
    /\ Len(tries) <= MAX_ATTEMPTS
    /\ decision \in {"none", "retry", "return", "raise"}
    /\ sent \in 0..(4 * MAX_ATTEMPTS)
    /\ outcome.kind \in {"none", "running", "value", "error"}
    /\ \A k \in PriceSymbols :
          /\ price_cache[k].price \in UsdQuotes \cup {None}
          /\ price_cache[k].expires \in 0..(MaxTime + PRICE_TTL)

Init ==
    /\ wallets = {}
    /\ balances = {}
    /\ history = {}
    /\ cache = [k \in WalletIds |-> 0]
    /\ redis \in {"up", "down"}
    /\ now = 0
    /\ nextId = 1
    /\ nextWallet = 1
    /\ requests = [p \in Procs |-> 0]
    /\ pc = [p \in Procs |-> "idle"]
    /\ wallet = [p \in Procs |-> NoWallet]
    /\ force = [p \in Procs |-> FALSE]
    /\ token_balances = [p \in Procs |-> <<>>]
    /\ pending = [p \in Procs |-> <<>>]
    /\ calls = [p \in Procs |-> 0]
    /\ ret = [p \in Procs |-> NoRet]
    /\ Quiet
    /\ Unasked

\* ------------------------------------------------------------ requests
RECURSIVE Started(_)
\* the requests the workers ps have taken
Started(ps) ==
    IF ps = {} THEN 0
    ELSE LET p == CHOOSE x \in ps : TRUE
         IN requests[p] + Started(ps \ {p})

\* a free worker takes a request
Begin(p) ==
    /\ pc[p] = "idle"
    /\ Started(Procs) < MaxRequests
    /\ requests' = [requests EXCEPT ![p] = @ + 1]

\* the handler returns or raises: the response is out, the session is closed
Finish(p, kind, val) ==
    /\ pc' = [pc EXCEPT ![p] = "idle"]
    /\ ret' = [ret EXCEPT ![p] = [kind |-> kind, val |-> val]]
    /\ wallet' = [wallet EXCEPT ![p] = NoWallet]
    /\ force' = [force EXCEPT ![p] = FALSE]
    /\ token_balances' = [token_balances EXCEPT ![p] = <<>>]
    /\ pending' = [pending EXCEPT ![p] = <<>>]
    /\ calls' = [calls EXCEPT ![p] = 0]

\* --------------------------------------------- fetch_and_store_balances
\* mutant: the fetch goes on without the wallet row
FetchLookupUnchecked(p, id, f) ==
    /\ Begin(p)
    /\ pc' = [pc EXCEPT ![p] = "cache_check"]
    /\ wallet' = [wallet EXCEPT ![p] =
                    IF WalletById(id) = {}
                    THEN [id |-> id, address |-> "0xAa", chain |-> "ethereum"]
                    ELSE CHOOSE w \in WalletById(id) : TRUE]
    /\ force' = [force EXCEPT ![p] = f]
    /\ ret' = [ret EXCEPT ![p] = NoRet]
    /\ UNCHANGED <<token_balances, pending, calls>>
    /\ UNCHANGED <<tables, cache, redis, now, nextId, nextWallet, net, conv>>

\* wallet = WalletService.get_wallet(db, wallet_id); if not wallet: raise ValueError
FetchLookup(p, id, f) ==
    /\ Begin(p)
    /\ IF WalletById(id) = {}
       THEN Finish(p, "error", "not_found")
       ELSE /\ pc' = [pc EXCEPT ![p] = "cache_check"]
            /\ wallet' = [wallet EXCEPT ![p] = CHOOSE w \in WalletById(id) : TRUE]
            /\ force' = [force EXCEPT ![p] = f]
            /\ ret' = [ret EXCEPT ![p] = NoRet]
            /\ UNCHANGED <<token_balances, pending, calls>>
    /\ UNCHANGED <<tables, cache, redis, now, nextId, nextWallet, net, conv>>

\* mutant: the cached path renews the key
FetchCacheCheckRenewing(p) ==
    /\ pc[p] = "cache_check"
    /\ IF UseCached(force[p], CacheGet(wallet[p].id))
       THEN /\ Finish(p, "cached", BalancesOf(wallet[p].id))
            /\ cache' = CacheSet(wallet[p].id, BALANCES_TTL)
       ELSE /\ pc' = [pc EXCEPT ![p] = "adapter"]
            /\ UNCHANGED <<locals, cache>>
    /\ UNCHANGED <<tables, redis, now, nextId, nextWallet, net, conv, requests>>

\* the cache check: a hit returns the persisted rows, a miss or force goes to the chain
FetchCacheCheck(p) ==
    /\ pc[p] = "cache_check"
    /\ IF UseCached(force[p], CacheGet(wallet[p].id))
       THEN Finish(p, "cached", BalancesOf(wallet[p].id))
       ELSE /\ pc' = [pc EXCEPT ![p] = "adapter"]
            /\ UNCHANGED locals
    /\ UNCHANGED <<tables, cache, redis, now, nextId, nextWallet, net, conv, requests>>

\* mutant: every chain name is taken
SupportedChainAny(chain) == TRUE

\* the chains the service has a branch for
SupportedChain(chain) == chain \in {"ethereum", "solana"}

\* the except branch: db.rollback(); raise
FetchRaise(p, error) ==
    /\ balances' = RolledBack(pending[p], wallet[p].id).balances
    /\ history' = RolledBack(pending[p], wallet[p].id).history
    /\ cache' = CacheAfterError(wallet[p].id)
    /\ Finish(p, "error", error)
    /\ UNCHANGED <<wallets, redis, now, nextId, nextWallet, net, conv, requests>>

\* token_balances = <adapter>.get_wallet_balances(wallet.address) returns
FetchAdapterOk(p, amount) ==
    /\ pc[p] = "adapter"
    /\ SupportedChain(wallet[p].chain)
    /\ calls' = [calls EXCEPT ![p] = @ + 1]
    /\ token_balances' = [token_balances EXCEPT ![p] = AdapterBalances(wallet[p].chain, amount)]
    /\ pc' = [pc EXCEPT ![p] = "store"]
    /\ UNCHANGED <<tables, cache, redis, now, nextId, nextWallet, net, conv, requests,
                   wallet, force, pending, ret>>

\* the adapter raises (no client, retries exhausted, timeout), or the chain has no branch
FetchAdapterError(p) ==
    /\ pc[p] = "adapter"
    /\ FetchRaise(p, IF SupportedChain(wallet[p].chain) THEN "adapter" ELSE "unsupported_chain")

\* one iteration of the loop over token_balances.items()
FetchStore(p, usd_price) ==
    /\ pc[p] = "store"
    /\ token_balances[p] # <<>>
    /\ LET item == Head(token_balances[p])
           found == ExistingBalances(wallet[p].id, item.symbol)
       IN \E existing \in (IF found = {} THEN {None} ELSE {b.id : b \in found}) :
            pending' = [pending EXCEPT ![p] = Append(@,
                          [symbol |-> item.symbol,
                           existing |-> existing,
                           balance |-> item.balance,
                           usd_price |-> usd_price,
                           usd_value |-> UsdValue(item.balance, usd_price),
                           at |-> now])]
    /\ token_balances' = [token_balances EXCEPT ![p] = Tail(@)]
    /\ UNCHANGED <<tables, cache, redis, now, nextId, nextWallet, net, conv, requests,
                   pc, wallet, force, calls, ret>>

\* a query of the loop raises
FetchStoreError(p) ==
    /\ pc[p] = "store"
    /\ token_balances[p] # <<>>
    /\ FetchRaise(p, "persistence")

\* db.commit() succeeds; the round trip takes time
FetchCommit(p) ==
    /\ pc[p] = "store"
    /\ token_balances[p] = <<>>
    /\ ~CommitFails(pending[p], wallet[p].id)
    /\ now < MaxTime
    /\ now' = now + 1
    /\ balances' = Committed(pending[p], wallet[p].id).balances
    /\ history' = Committed(pending[p], wallet[p].id).history
    /\ nextId' = nextId + 2 * Len(pending[p])
    /\ ret' = [ret EXCEPT ![p] = [kind |-> "stored",
                                  val |-> StoredRows(pending[p], wallet[p].id, nextId)]]
    /\ pending' = [pending EXCEPT ![p] = <<>>]
    /\ pc' = [pc EXCEPT ![p] = "committed"]
    /\ UNCHANGED <<wallets, cache, redis, nextWallet, net, conv, requests,
                   wallet, force, token_balances, calls>>

\* db.commit() raises: a constraint of the flush, or the store fails
FetchCommitError(p) ==
    /\ pc[p] = "store"
    /\ token_balances[p] = <<>>
    /\ FetchRaise(p, "persistence")

\* cache.set(cache_key, True, ttl=300); return stored_balances
FetchCacheSet(p) ==
    /\ pc[p] = "committed"
    /\ cache' = CacheSet(wallet[p].id, BALANCES_TTL)
    /\ Finish(p, "stored", ret[p].val)
    /\ UNCHANGED <<tables, redis, now, nextId, nextWallet, net, conv, requests>>

\* ------------------------------------------------------------ delete_wallet
\* wallet = db.query(Wallet)...first(); if not wallet: return False
DeleteLookup(p, id) ==
    /\ Begin(p)
    /\ IF WalletById(id) = {}
       THEN Finish(p, "deleted", FALSE)
       ELSE /\ pc' = [pc EXCEPT ![p] = "del_cache"]
            /\ wallet' = [wallet EXCEPT ![p] = CHOOSE w \in WalletById(id) : TRUE]
            /\ ret' = [ret EXCEPT ![p] = NoRet]
            /\ UNCHANGED <<force, token_balances, pending, calls>>
    /\ UNCHANGED <<tables, cache, redis, now, nextId, nextWallet, net, conv>>

\* cache.delete(f"wallet:{wallet_id}:balances")
DeleteCache(p) ==
    /\ pc[p] = "del_cache"
    /\ cache' = CacheDelete(wallet[p].id)
    /\ pc' = [pc EXCEPT ![p] = "del_commit"]
    /\ UNCHANGED <<tables, redis, now, nextId, nextWallet, net, conv, requests, locals>>

\* db.delete(wallet); db.commit(): the wallet goes and its rows with it
\* (cascade="all, delete-orphan", ondelete="CASCADE")
DeleteCommit(p) ==
    /\ pc[p] = "del_commit"
    /\ WalletById(wallet[p].id) # {}
    /\ wallets' = wallets \ WalletById(wallet[p].id)
    /\ balances' = balances \ BalancesOf(wallet[p].id)
    /\ history' = history \ HistoryOf(wallet[p].id)
    /\ Finish(p, "deleted", TRUE)
    /\ UNCHANGED <<cache, redis, now, nextId, nextWallet, net, conv, requests>>

\* the commit raises: the row is already gone, or the store fails
DeleteCommitError(p) ==
    /\ pc[p] = "del_commit"
    /\ Finish(p, "error", "persistence")
    /\ UNCHANGED <<tables, cache, redis, now, nextId, nextWallet, net, conv, requests>>

\* ------------------------------------------------------------ create_wallet
\* Web3.is_address: the hex forms of the address; Pubkey.from_string: base58
IsValidAddress(chain, address) ==
    IF chain = "ethereum" THEN address \in {"0xaa", "0xAa"}
    ELSE address = "So1"

\* Web3.to_checksum_address: every spelling of the address maps to the checksummed one
ChecksumAddress(address) == IF address \in {"0xaa", "0xAa"} THEN "0xAa" ELSE address

NormalizedAddress(chain, address) ==
    IF chain = "ethereum" THEN ChecksumAddress(address) ELSE address

\* mutant: the table takes a registered pair again
WalletExistsNever(address, chain) == FALSE

\* uix_wallet_address_chain
WalletExists(address, chain) ==
    \E w \in wallets : w.address = address /\ w.chain = chain

CreateWalletOk(p, address, chain) ==
    /\ Begin(p)
    /\ nextWallet <= MaxWallets
    /\ SupportedChain(chain)
    /\ IsValidAddress(chain, address)
    /\ ~WalletExists(NormalizedAddress(chain, address), chain)
    /\ wallets' = wallets \cup {[id |-> nextWallet,
                                 address |-> NormalizedAddress(chain, address),
                                 chain |-> chain]}
    /\ nextWallet' = nextWallet + 1
    /\ UNCHANGED <<net, conv>>
    /\ Finish(p, "wallet", nextWallet)
    /\ UNCHANGED <<balances, history, cache, redis, now, nextId>>

\* The ValueError create_wallet raises, "" when it raises none: unsupported
\* chain, invalid address, or IntegrityError at the commit -> rollback
CreateError(address, chain) ==
    IF ~SupportedChain(chain) THEN "unsupported_chain"
    ELSE IF ~IsValidAddress(chain, address) THEN "invalid_address"
    ELSE IF WalletExists(NormalizedAddress(chain, address), chain) THEN "already_exists"
    ELSE ""

CreateWalletError(p, address, chain) ==
    /\ Begin(p)
    /\ CreateError(address, chain) # ""
    /\ Finish(p, "error", CreateError(address, chain))
    /\ UNCHANGED <<tables, cache, redis, now, nextId, nextWallet, net, conv>>

\* ------------------------------------------------------------ reads
Answer(p, kind, val) ==
    /\ Begin(p)
    /\ Finish(p, kind, val)
    /\ UNCHANGED <<tables, cache, redis, now, nextId, nextWallet, net, conv>>

GetWallet(p, id) == Answer(p, "get_wallet", WalletById(id))

GetAllWallets(p) == Answer(p, "wallets", wallets)

\* mutant: the rows are served only while the wallet's key is fresh
GetWalletBalancesGated(p, id) ==
    Answer(p, "balances", [wallet_id |-> id,
                           rows |-> IF CacheGet(id) THEN BalancesOf(id) ELSE {}])

\* get_wallet_balances(db, wallet_id): the answer to the request for wallet_id
GetWalletBalances(p, id) ==
    Answer(p, "balances", [wallet_id |-> id, rows |-> BalancesOf(id)])

RECURSIVE SumUsdRaw(_)
\* mutant: a missing usd_value is added as it is stored
SumUsdRaw(rows) ==
    IF rows = {} THEN 0
    ELSE LET b == CHOOSE x \in rows : TRUE
         IN b.usd_value + SumUsdRaw(rows \ {b})

RECURSIVE SumUsd(_)
\* sum(Decimal(b.usd_value) if b.usd_value is not None else Decimal(0) for b in balances)
SumUsd(rows) ==
    IF rows = {} THEN 0
    ELSE LET b == CHOOSE x \in rows : TRUE
         IN (IF b.usd_value # None THEN b.usd_value ELSE 0) + SumUsd(rows \ {b})

RECURSIVE SumTotals(_)
\* total_usd_value += wallet_usd_value, over the wallets
SumTotals(ws) ==
    IF ws = {} THEN 0
    ELSE LET w == CHOOSE x \in ws : TRUE
         IN SumUsd(BalancesOf(w.id)) + SumTotals(ws \ {w})

PortfolioSummary ==
    [total_wallets |-> Cardinality(wallets),
     total_usd_value |-> SumTotals(wallets),
     wallets |-> {[id |-> w.id, total_usd_value |-> SumUsd(BalancesOf(w.id))] : w \in wallets}]

\* mutant: the summary drops the freshness keys
GetPortfolioSummaryInvalidating(p) ==
    /\ Begin(p)
    /\ Finish(p, "portfolio", PortfolioSummary)
    /\ cache' = [k \in WalletIds |-> 0]
    /\ UNCHANGED <<tables, redis, now, nextId, nextWallet, net, conv>>

GetPortfolioSummary(p) == Answer(p, "portfolio", PortfolioSummary)

\* query.filter(wallet_id)[.filter(token_symbol)]
HistoryMatching(id, symbol) ==
    {h \in HistoryOf(id) : symbol = "" \/ h.token_symbol = symbol}

\* mutant: the oldest rows are returned first
OldestFirst(rows) ==
    {s \in [1..Cardinality(rows) -> rows] :
        /\ \A i, j \in 1..Cardinality(rows) : i # j => s[i] # s[j]
        /\ \A i, j \in 1..Cardinality(rows) : i < j => s[i].recorded_at <= s[j].recorded_at}

\* .order_by(recorded_at.desc()): every order of the rows that is newest first
NewestFirst(rows) ==
    {s \in [1..Cardinality(rows) -> rows] :
        /\ \A i, j \in 1..Cardinality(rows) : i # j => s[i] # s[j]
        /\ \A i, j \in 1..Cardinality(rows) : i < j => s[i].recorded_at >= s[j].recorded_at}

\* .limit(limit)
Limit(s, limit) == [i \in 1..(IF Len(s) < limit THEN Len(s) ELSE limit) |-> s[i]]

\* the response names the request it answers
GetBalanceHistory(p, id, symbol, limit) ==
    \E s \in NewestFirst(HistoryMatching(id, symbol)) :
        Answer(p, "history", [wallet_id |-> id, token_symbol |-> symbol,
                              limit |-> limit, rows |-> Limit(s, limit)])

\* ------------------------------------------------------------ environment
\* time passes: long enough for a key set before to lapse
Tick ==
    /\ now + BALANCES_TTL <= MaxTime
    /\ now' = now + BALANCES_TTL
    /\ UNCHANGED <<tables, cache, redis, nextId, nextWallet, net, conv, requests, pc, locals>>

\* the Redis server becomes unreachable, or reachable again
RedisFlap ==
    /\ redis' = IF redis = "up" THEN "down" ELSE "up"
    /\ UNCHANGED <<tables, cache, now, nextId, nextWallet, net, conv, requests, pc, locals>>

Symbols == {"", "ETH"}
Limits == {1, 100}

\* every request on registered wallets, and the environment
NextStored ==
    \/ \E p \in Procs, id \in WalletIds, f \in BOOLEAN : FetchLookup(p, id, f)
    \/ \E p \in Procs : FetchCacheCheck(p)
    \/ \E p \in Procs, amount \in Amounts : FetchAdapterOk(p, amount)
    \/ \E p \in Procs : FetchAdapterError(p)
    \/ \E p \in Procs, usd_price \in Prices : FetchStore(p, usd_price)
    \/ \E p \in Procs : FetchStoreError(p)
    \/ \E p \in Procs : FetchCommit(p)
    \/ \E p \in Procs : FetchCommitError(p)
    \/ \E p \in Procs : FetchCacheSet(p)
    \/ \E p \in Procs, id \in WalletIds : DeleteLookup(p, id)
    \/ \E p \in Procs : DeleteCache(p)
    \/ \E p \in Procs : DeleteCommit(p)
    \/ \E p \in Procs : DeleteCommitError(p)
    \/ \E p \in Procs, address \in Addresses, chain \in Chains : CreateWalletError(p, address, chain)
    \/ \E p \in Procs, id \in WalletIds : GetWallet(p, id)
    \/ \E p \in Procs : GetAllWallets(p)
    \/ \E p \in Procs, id \in WalletIds : GetWalletBalances(p, id)
    \/ \E p \in Procs : GetPortfolioSummary(p)
    \/ \E p \in Procs, id \in WalletIds, symbol \in Symbols, limit \in Limits :
            GetBalanceHistory(p, id, symbol, limit)
    \/ Tick
    \/ RedisFlap

Next ==
    \/ \E p \in Procs, address \in Addresses, chain \in Chains : CreateWalletOk(p, address, chain)
    \/ NextStored

Spec == Init /\ [][Next]_vars

\* The service with both wallets registered and fetched once: the state after
\*   create_wallet("0xaa", "ethereum"); create_wallet("So1", "solana");
\*   fetch_and_store_balances(1); fetch_and_store_balances(2)
\* with 1 ETH priced or not, 2 SOL priced, and the keys set or not
InitStored ==
    /\ wallets = {[id |-> 1, address |-> "0xAa", chain |-> "ethereum"],
                  [id |-> 2, address |-> "So1", chain |-> "solana"]}
    /\ \E usd_price \in Prices :
          LET first == <<[symbol |-> "ETH", existing |-> None, balance |-> 1,
                          usd_price |-> usd_price,
                          usd_value |-> UsdValue(1, usd_price), at |-> 0]>>
              second == <<[symbol |-> "SOL", existing |-> None, balance |-> 2,
                           usd_price |-> 2,
                           usd_value |-> UsdValue(2, 2), at |-> 1]>>
          IN /\ balances = StoredRows(first, 1, 1) \cup StoredRows(second, 2, 3)
             /\ history = HistoryRows(first, 1, 1) \cup HistoryRows(second, 2, 3)
    /\ cache \in {[k \in WalletIds |-> 0],
                  [k \in WalletIds |-> IF k <= 2 THEN k + BALANCES_TTL ELSE 0]}
    /\ redis \in {"up", "down"}
    /\ now = 2
    /\ nextId = 5
    /\ nextWallet = 3
    /\ requests = [p \in Procs |-> IF p = 1 THEN 1 ELSE 0]
    /\ pc = [p \in Procs |-> "idle"]
    /\ wallet = [p \in Procs |-> NoWallet]
    /\ force = [p \in Procs |-> FALSE]
    /\ token_balances = [p \in Procs |-> <<>>]
    /\ pending = [p \in Procs |-> <<>>]
    /\ calls = [p \in Procs |-> 0]
    /\ ret = [p \in Procs |-> NoRet]
    /\ Quiet
    /\ Unasked

SpecStored == InitStored /\ [][NextStored]_vars

\* The service over a wallets table that holds a row the service did not
\* write: wallets.chain is a free String(50), and fetch_and_store_balances
\* has an else branch for a chain without adapter; as in InitStored, worker 1
\* has served one request
InitForeign ==
    /\ wallets = {[id |-> 1, address |-> "So1", chain |-> "solana"],
                  [id |-> 2, address |-> "So1", chain |-> "cosmos"]}
    /\ balances = {}
    /\ history = {}
    /\ cache = [k \in WalletIds |-> 0]
    /\ redis \in {"up", "down"}
    /\ now = 0
    /\ nextId = 1
    /\ nextWallet = 3
    /\ requests = [p \in Procs |-> IF p = 1 THEN 1 ELSE 0]
    /\ pc = [p \in Procs |-> "idle"]
    /\ wallet = [p \in Procs |-> NoWallet]
    /\ force = [p \in Procs |-> FALSE]
    /\ token_balances = [p \in Procs |-> <<>>]
    /\ pending = [p \in Procs |-> <<>>]
    /\ calls = [p \in Procs |-> 0]
    /\ ret = [p \in Procs |-> NoRet]
    /\ Quiet
    /\ Unasked

SpecForeign == InitForeign /\ [][NextStored]_vars

\* ------------------------------------------- the retry decorator (tenacity)
\* mutant: the decorator has no stop
RetryingForever(raised, attempt_number) ==
    IF ~raised THEN "return" ELSE "retry"

\* @retry(stop=stop_after_attempt(3), wait=wait_exponential(...)): no retry=
\* argument, so any exception of the body is retried; after the last attempt
\* the wrapper raises (RetryError); a body that returns ends the call
Retrying(raised, attempt_number) ==
    IF ~raised THEN "return"
    ELSE IF attempt_number >= MAX_ATTEMPTS THEN "raise"
    ELSE "retry"

\* --------------------------------------------------------- chain adapters
AdapterReplies ==
    {[kind |-> "ok", amount |-> a] : a \in {0, 2}} \cup
    {[kind |-> k, amount |-> 0] : k \in Failures}

\* the decorated operations get_wallet_balances makes, in order, with the
\* symbol each result is stored under ("" : the result holds no symbol)
WalletOperations(service) ==
    CASE service = "ethereum" -> <<[name |-> "get_eth_balance", symbol |-> "ETH"]>>
      [] service = "solana" -> <<[name |-> "get_sol_balance", symbol |-> "SOL"],
                                 [name |-> "get_token_accounts", symbol |-> ""]>>
      [] service = "cosmos" -> <<[name |-> "get_all_balances", symbol |-> "ATOM"]>>
      [] service = "starknet" -> <<[name |-> "get_balance", symbol |-> "ETH"],
                                   [name |-> "get_balance", symbol |-> "STRK"],
                                   [name |-> "get_balance", symbol |-> "USDC"],
                                   [name |-> "get_balance", symbol |-> "USDT"]>>

\* the functions of an adapter a caller may call
AdapterFunctions(service) ==
    {"get_wallet_balances"} \cup
    {WalletOperations(service)[i].name : i \in 1..Len(WalletOperations(service))}

\* the operations the called function makes
Operations(service, fn) ==
    IF fn = "get_wallet_balances" THEN WalletOperations(service)
    ELSE LET i == CHOOSE j \in 1..Len(WalletOperations(service)) :
                      WalletOperations(service)[j].name = fn
         IN <<WalletOperations(service)[i]>>

Raised(event) == [event |-> event, raised |-> TRUE, value |-> 0, io |-> 0]

\* One run of the body of a decorated operation: what it met, whether it
\* raised, the amount it returned and the requests it sent.
\*   get_eth_balance, get_sol_balance, get_token_accounts: no client -> raise;
\*     the address is parsed first (raises on an invalid one), then the
\*     request; every exception is raised again
\*   get_all_balances: no rpc_url -> raise; request; every exception is raised again
\*   get_balance (Starknet): no rpc_url -> return Decimal(0); request; every
\*     exception is logged and Decimal(0) returned
AdapterBody(service, name, configured, valid, reply) ==
    IF service = "starknet"
    THEN IF ~configured
         THEN [event |-> "config", raised |-> FALSE, value |-> 0, io |-> 0]
         ELSE [event |-> reply.kind, raised |-> FALSE, io |-> 1,
               value |-> IF reply.kind = "ok" THEN reply.amount ELSE 0]
    ELSE IF ~configured THEN Raised("config")
    ELSE IF ~valid /\ service \in {"ethereum", "solana"} THEN Raised("validation")
    ELSE IF reply.kind # "ok" THEN [Raised(reply.kind) EXCEPT !.io = 1]
    ELSE [event |-> "ok", raised |-> FALSE, io |-> 1,
          value |-> IF name = "get_token_accounts" THEN 0 ELSE reply.amount]

\* what get_wallet_balances does before its first operation: "raise" (Ethereum
\* and Solana without client), "empty" (Starknet without rpc_url returns {}),
\* "go" otherwise (Cosmos has no such check)
Precheck(service, configured) ==
    IF configured \/ service = "cosmos" THEN "go"
    ELSE IF service = "starknet" THEN "empty"
    ELSE "raise"

Idle == outcome.kind # "running"

\* fn of an adapter is entered: what becomes of the state of the call
Entered(service, fn, configured, valid) ==
    /\ Idle
    /\ fn \in AdapterFunctions(service)
    /\ ~valid => service \in {"ethereum", "solana"}
    /\ call' = [service |-> service, fn |-> fn, configured |-> configured,
                valid |-> valid, symbols |-> <<>>]
    /\ LET check == IF fn = "get_wallet_balances" THEN Precheck(service, configured) ELSE "go"
       IN /\ left' = IF check = "go" THEN Operations(service, fn) ELSE <<>>
          /\ outcome' = CASE check = "go" -> [kind |-> "running", val |-> None]
                          [] check = "empty" -> [kind |-> "value", val |-> {}]
                          [] check = "raise" -> [kind |-> "error", val |-> "config"]
    /\ tries' = <<>>
    /\ decision' = "none"
    /\ sent' = 0
    /\ result' = {}
    /\ price_cache' = price_cache

\* a caller calls fn of an adapter
CallAdapter(service, fn, configured, valid) ==
    /\ Entered(service, fn, configured, valid)
    /\ UNCHANGED <<app, conv>>

\* one attempt of the operation in progress, and what the decorator and
\* get_wallet_balances do with it: retry, go on with the next operation,
\* return, or raise
AdapterAttempt(reply) ==
    /\ outcome.kind = "running"
    /\ call.service \in Services
    /\ left # <<>>
    /\ LET op == Head(left)
           prior == IF decision = "retry" THEN tries ELSE <<>>
           body == AdapterBody(call.service, op.name, call.configured, call.valid, reply)
           d == Retrying(body.raised, Len(prior) + 1)
           gathered == IF d = "return" /\ body.value > 0
                       THEN result \cup {<<op.symbol, body.value>>}
                       ELSE result
       IN /\ tries' = Append(prior, body.event)
          /\ decision' = d
          /\ sent' = sent + body.io
          /\ result' = gathered
          /\ left' = CASE d = "return" -> Tail(left)
                       [] d = "raise" -> <<>>
                       [] OTHER -> left
          /\ outcome' = CASE d = "raise" -> [kind |-> "error", val |-> "RetryError"]
                          [] d = "return" /\ Tail(left) = <<>> ->
                                [kind |-> "value",
                                 val |-> IF call.fn = "get_wallet_balances"
                                         THEN gathered ELSE body.value]
                          [] OTHER -> outcome
    /\ UNCHANGED <<app, conv, call, price_cache>>

\* ----------------------------------------------------------- price oracle
PriceReplies ==
    {[kind |-> "ok", data |-> d] : d \in [TOKEN_MAP -> UsdQuotes]} \cup
    {[kind |-> k, data |-> [id \in TOKEN_MAP |-> 0]] : k \in Failures}

\* cache.get(f"price:{symbol}:usd"): None without client or on error, else
\* the stored price while the key lives
PriceCacheGet(key) ==
    IF redis = "up" /\ price_cache[key].expires > now
    THEN price_cache[key].price
    ELSE None

RECURSIVE PriceCacheSet(_, _)
\* cache.set(f"price:{symbol}:usd", float(price), ttl=300) for each pair of
\* stores, on top of entries; nothing is stored when the store does not answer
PriceCacheSet(entries, stores) ==
    IF stores = {} \/ redis # "up" THEN entries
    ELSE LET kv == CHOOSE x \in stores : TRUE
         IN PriceCacheSet([entries EXCEPT ![kv[1]] =
                              [price |-> kv[2], expires |-> now + PRICE_TTL]],
                          stores \ {kv})

\* the dict {symbol: None for symbol in token_symbols}, as its items
AllAbsent(symbols) == {<<symbols[i], None>> : i \in 1..Len(symbols)}

\* price of an id in the answer: Decimal(str(price)) `if price`, else None
Quoted(data, id) == IF data[id] # 0 THEN data[id] ELSE None

Returned(event, value, io, stores) ==
    [event |-> event, raised |-> FALSE, value |-> value, io |-> io, stores |-> stores]

\* mutant: a failed request is raised to the retry decorator
GetPriceBodyRaising(symbol, reply) ==
    IF PriceCacheGet(symbol) # None
    THEN Returned("cached", PriceCacheGet(symbol), 0, {})
    ELSE IF Upper(symbol) \notin TOKEN_MAP
    THEN Returned("unmapped", None, 0, {})
    ELSE IF reply.kind # "ok"
    THEN [Returned(reply.kind, None, 1, {}) EXCEPT !.raised = TRUE]
    ELSE LET price == Quoted(reply.data, Upper(symbol))
         IN Returned("ok", price, 1, IF price # None THEN {<<symbol, price>>} ELSE {})

\* One run of the body of get_price: the cached price when the key
\* price:{token_symbol}:usd answers; None for a symbol without CoinGecko id;
\* else the request, the price stored under the key and returned, None when
\* the answer holds no price; RequestException and every other exception
\* are logged and None returned
GetPriceBody(symbol, reply) ==
    IF PriceCacheGet(symbol) # None
    THEN Returned("cached", PriceCacheGet(symbol), 0, {})
    ELSE IF Upper(symbol) \notin TOKEN_MAP
    THEN Returned("unmapped", None, 0, {})
    ELSE IF reply.kind # "ok"
    THEN Returned(reply.kind, None, 1, {})
    ELSE LET price == Quoted(reply.data, Upper(symbol))
         IN Returned("ok", price, 1, IF price # None THEN {<<symbol, price>>} ELSE {})

\* the CoinGecko ids of the symbols: TOKEN_MAP.get(symbol.upper())
CoingeckoIds(symbols) == {Upper(symbols[i]) : i \in 1..Len(symbols)} \cap TOKEN_MAP

\* The body of get_prices: no mapped symbol -> every symbol None, no request;
\* else one batch request (the cache is not read); on an answer the result
\* holds each mapped symbol in upper case with its price or None, each price
\* is stored under price:{SYMBOL}:usd, and every symbol missing from the
\* result is added in upper case with None; on any exception every symbol
\* as given with None
GetPricesBody(symbols, reply) ==
    IF CoingeckoIds(symbols) = {}
    THEN Returned("unmapped", AllAbsent(symbols), 0, {})
    ELSE IF reply.kind # "ok"
    THEN Returned(reply.kind, AllAbsent(symbols), 1, {})
    ELSE LET priced == {<<id, Quoted(reply.data, id)>> : id \in CoingeckoIds(symbols)}
             others == {<<Upper(symbols[i]), None>> :
                          i \in {j \in 1..Len(symbols) : Upper(symbols[j]) \notin TOKEN_MAP}}
         IN Returned("ok", priced \cup others, 1, {kv \in priced : kv[2] # None})

\* a caller asks the oracle: get_price(symbols[1]) or get_prices(symbols)
CallPrice(fn, symbols) ==
    /\ Idle
    /\ fn \in {"get_price", "get_prices"}
    /\ fn = "get_price" => Len(symbols) = 1
    /\ call' = [service |-> "price", fn |-> fn, configured |-> TRUE,
                valid |-> TRUE, symbols |-> symbols]
    /\ left' = <<[name |-> fn, symbol |-> ""]>>
    /\ outcome' = [kind |-> "running", val |-> None]
    /\ tries' = <<>>
    /\ decision' = "none"
    /\ sent' = 0
    /\ result' = {}
    /\ UNCHANGED <<app, conv, price_cache>>

\* one run of the body; get_price is decorated with @retry, get_prices is not
PriceAttempt(reply) ==
    /\ outcome.kind = "running"
    /\ call.service = "price"
    /\ LET prior == IF decision = "retry" THEN tries ELSE <<>>
           body == IF call.fn = "get_price"
                   THEN GetPriceBody(call.symbols[1], reply)
                   ELSE GetPricesBody(call.symbols, reply)
           d == IF call.fn = "get_price"
                THEN Retrying(body.raised, Len(prior) + 1)
                ELSE IF body.raised THEN "raise" ELSE "return"
       IN /\ tries' = Append(prior, body.event)
          /\ decision' = d
          /\ sent' = sent + body.io
          /\ price_cache' = PriceCacheSet(price_cache, body.stores)
          /\ left' = IF d = "retry" THEN left ELSE <<>>
          /\ outcome' = CASE d = "raise" -> [kind |-> "error", val |-> "RetryError"]
                          [] d = "return" -> [kind |-> "value", val |-> body.value]
                          [] OTHER -> outcome
    /\ UNCHANGED <<app, conv, call, result>>

\* the adapters and the oracle called one call at a time, with the clock and
\* the Redis server of the service
NextNet ==
    \/ \E service \in Services, configured \in BOOLEAN, valid \in BOOLEAN :
          \E fn \in AdapterFunctions(service) :
            CallAdapter(service, fn, configured, valid)
    \/ \E reply \in AdapterReplies : AdapterAttempt(reply)
    \/ \E fn \in {"get_price", "get_prices"}, symbols \in SymbolLists : CallPrice(fn, symbols)
    \/ \E reply \in PriceReplies : PriceAttempt(reply)
    \/ Tick
    \/ RedisFlap

SpecNet == Init /\ [][NextNet]_vars

\* ------------------------------------------------ adapters: unit conversion
\* A Decimal is its coefficient and exponent (coefficient * 10^exponent); a
\* Python int too large for a machine word is its base-65536 limbs, lowest
\* first; a hex string is the sequence of its digits after "0x".
Base == 2^16
LimbBits == 16
BALANCE_SHIFT == 128       \* balance_low + (balance_high << 128)

RawAmounts == {0, 1, 5, 10, 1000000, 1000000000, 1500000000}
Tokens == {<<"ethereum", "ETH">>, <<"solana", "SOL">>, <<"cosmos", "ATOM">>,
           <<"cosmos", "TIA">>, <<"starknet", "ETH">>, <<"starknet", "STRK">>,
           <<"starknet", "USDC">>, <<"starknet", "USDT">>}
HexWords ==
    {<<0>>, <<1>>, <<1, 2, 3, 4, 5, 6, 7, 8, 9>>,
     [i \in 1..32 |-> 15],
     [i \in 1..32 |-> IF i = 1 THEN 8 ELSE 0]}
Queries ==
    {[service |-> t[1], token |-> t[2], raw |-> r, words |-> <<>>] :
        t \in Tokens, r \in RawAmounts} \cup
    {[service |-> "starknet", token |-> "ETH", raw |-> 0, words |-> <<low>>] :
        low \in HexWords} \cup
    {[service |-> "starknet", token |-> "ETH", raw |-> 0, words |-> <<low, high>>] :
        low \in HexWords, high \in HexWords}

RECURSIVE Reduced(_, _)
\* the quotient Decimal division returns: trailing zeros are dropped while
\* the exponent is below the ideal exponent 0; zero is 0
Reduced(coefficient, exponent) ==
    IF coefficient = 0 THEN [coefficient |-> 0, exponent |-> 0]
    ELSE IF exponent < 0 /\ coefficient % 10 = 0
    THEN Reduced(coefficient \div 10, exponent + 1)
    ELSE [coefficient |-> coefficient, exponent |-> exponent]

\* Decimal(raw) / Decimal(10 ** decimals)
DividedByPowerOfTen(raw, decimals) == Reduced(raw, 0 - decimals)

\* the decimals each operation divides by: 10**18 in get_eth_balance,
\* LAMPORTS_PER_SOL = 10**9, token_info["decimals"] = 6 for ATOM and TIA, and
\* 10 ** 18 in the Starknet get_balance for every token contract
Decimals(service, token) ==
    CASE service = "ethereum" -> 18
      [] service = "solana" -> 9
      [] service = "cosmos" -> 6
      [] service = "starknet" -> 18

\* the amount an operation returns for the raw amount read from the chain
Amount(service, token, raw) == DividedByPowerOfTen(raw, Decimals(service, token))

\* digit j of a hex string counted from the right, 0 beyond its length
HexDigitFromRight(s, j) == IF j <= Len(s) THEN s[Len(s) - j + 1] ELSE 0

\* int(s, 16)
IntOfHex(s) ==
    [i \in 1..((Len(s) + 3) \div 4) |->
        HexDigitFromRight(s, 4 * i - 3) + 16 * HexDigitFromRight(s, 4 * i - 2)
        + 256 * HexDigitFromRight(s, 4 * i - 1) + 4096 * HexDigitFromRight(s, 4 * i)]

Limb(x, i) == IF i <= Len(x) THEN x[i] ELSE 0

\* x << bits, bits a multiple of the limb width
ShiftLeft(x, bits) ==
    [i \in 1..(Len(x) + bits \div LimbBits) |->
        IF i <= bits \div LimbBits THEN 0 ELSE x[i - bits \div LimbBits]]

RECURSIVE Carry(_, _, _)
\* the carry out of limb i of x + y
Carry(x, y, i) ==
    IF i = 0 THEN 0 ELSE (Limb(x, i) + Limb(y, i) + Carry(x, y, i - 1)) \div Base

\* x + y
Plus(x, y) ==
    LET n == IF Len(x) > Len(y) THEN Len(x) ELSE Len(y)
    IN [i \in 1..(n + 1) |-> (Limb(x, i) + Limb(y, i) + Carry(x, y, i - 1)) % Base]

\* mutant: the high word is shifted by half the width
BalanceRawShort(words) ==
    LET balance_low == IntOfHex(words[1])
        balance_high == IF Len(words) > 1 THEN IntOfHex(words[2]) ELSE <<>>
    IN Plus(balance_low, ShiftLeft(balance_high, BALANCE_SHIFT \div 2))

\* balance_low = int(result[0], 16); balance_high = int(result[1], 16) if
\* len(result) > 1 else 0; balance_raw = balance_low + (balance_high << 128)
BalanceRaw(words) ==
    LET balance_low == IntOfHex(words[1])
        balance_high == IF Len(words) > 1 THEN IntOfHex(words[2]) ELSE <<>>
    IN Plus(balance_low, ShiftLeft(balance_high, BALANCE_SHIFT))

\* an operation has read a raw answer from the chain
Ask(q) ==
    /\ asked = NoQuery \/ computed # NoAnswer
    /\ asked' = q
    /\ computed' = NoAnswer
    /\ UNCHANGED <<app, net>>

\* the raw amount is divided into the amount returned
ToAmount ==
    /\ asked.service # "none" /\ asked.words = <<>> /\ computed = NoAnswer
    /\ computed' = [kind |-> "amount", limbs |-> <<>>,
                    coefficient |-> Amount(asked.service, asked.token, asked.raw).coefficient,
                    exponent |-> Amount(asked.service, asked.token, asked.raw).exponent]
    /\ UNCHANGED <<app, net, asked>>

\* the Starknet result words are put together
ToRaw ==
    /\ asked.words # <<>> /\ computed = NoAnswer
    /\ computed' = [kind |-> "raw", limbs |-> BalanceRaw(asked.words),
                    coefficient |-> 0, exponent |-> 0]
    /\ UNCHANGED <<app, net, asked>>

NextUnits ==
    \/ \E q \in Queries : Ask(q)
    \/ ToAmount
    \/ ToRaw

SpecUnits == Init /\ [][NextUnits]_vars

\* ============================================================ properties
TokenSymbols == {"ETH", "SOL"}

\* worker p is inside fetch_and_store_balances, after the wallet lookup
InFetch(p) == pc[p] \in {"cache_check", "adapter", "store", "committed"}

\* this step is a step of worker p
StepOf(p) == <<pc[p], token_balances[p], pending[p]>> # <<pc'[p], token_balances'[p], pending'[p]>>

\* this step is worker p's fetch raising
FetchFails(p) == InFetch(p) /\ pc'[p] = "idle" /\ ret'[p].kind = "error"

\* this step is worker p's db.commit() of a fetch
FetchCommits(p) == pc[p] = "store" /\ pc'[p] = "committed"

\* this step is worker p's delete_wallet committing
DeleteCommits(p) == pc[p] = "del_commit" /\ pc'[p] = "idle" /\ ret'[p].kind = "deleted"

\* C1: a fetch that fails after the wallet lookup leaves balances and
\* balance_history as they were: the failing step writes nothing, no earlier
\* step of the call wrote anything, and a call that committed never fails.
C1_FailedFetchWritesNothing ==
    [][\A p \in Procs :
        /\ FetchFails(p) => pc[p] # "committed" /\ balances' = balances /\ history' = history
        /\ (InFetch(p) /\ StepOf(p) /\ ~FetchCommits(p)) =>
                balances' = balances /\ history' = history]_vars

\* a fetch has just failed on a persistence error while rows are stored
C1_Witness ==
    \E p \in Procs :
        /\ pc[p] = "idle" /\ ret[p].kind = "error" /\ ret[p].val = "persistence"
        /\ balances # {} /\ history # {}

\* every write of worker p's session is in the tables after the step
AllWritten(p) ==
    \A i \in 1..Len(pending[p]) :
        /\ \E b \in balances' :
              /\ b.wallet_id = wallet[p].id /\ b.token_symbol = pending[p][i].symbol
              /\ b.balance = pending[p][i].balance /\ b.usd_value = pending[p][i].usd_value
              /\ b.last_updated = pending[p][i].at
        /\ \E h \in history' \ history :
              /\ h.wallet_id = wallet[p].id /\ h.token_symbol = pending[p][i].symbol
              /\ h.balance = pending[p][i].balance /\ h.usd_value = pending[p][i].usd_value
              /\ h.recorded_at = pending[p][i].at

\* the rows of wallet w change in this step only by one whole fetch of w
\* (every returned symbol stored, current and history row both) or by its delete
AllOrNothing(w) ==
    \/ /\ {b \in balances' : b.wallet_id = w} = {b \in balances : b.wallet_id = w}
       /\ {h \in history' : h.wallet_id = w} = {h \in history : h.wallet_id = w}
    \/ \E p \in Procs : DeleteCommits(p) /\ wallet[p].id = w
    \/ \E p \in Procs :
          /\ FetchCommits(p) /\ wallet[p].id = w
          /\ token_balances[p] = <<>>
          /\ AllWritten(p)
          /\ Cardinality({h \in history' \ history : h.wallet_id = w}) = Len(pending[p])
          /\ Cardinality({b \in balances' \ balances : b.wallet_id = w}) <= Len(pending[p])

\* a fetch that returns its stored rows has committed them before
ReturnsAfterCommit(p) ==
    (InFetch(p) /\ pc'[p] = "idle" /\ ret'[p].kind = "stored") =>
        /\ pc[p] = "committed"
        /\ UNCHANGED <<balances, history>>

\* C2 as stated: no partial state, and a fetch that succeeds has its rows
\* committed and the cache key refreshed when it returns.
C2_SuccessRefreshesCache ==
    [][/\ \A w \in WalletIds : AllOrNothing(w)
       /\ \A p \in Procs :
            /\ ReturnsAfterCommit(p)
            /\ (InFetch(p) /\ pc'[p] = "idle" /\ ret'[p].kind = "stored") =>
                    cache'[wallet[p].id] > now']_vars

\* C2 amended: no partial balance state is observable: the tables change only
\* by whole fetches; a fetch that succeeds has committed its current and
\* history rows and has marked the key fresh when the cache store took the
\* write; a fetch that fails leaves the tables untouched.
C2_AllOrNothing ==
    [][/\ \A w \in WalletIds : AllOrNothing(w)
       /\ \A p \in Procs :
            /\ ReturnsAfterCommit(p)
            /\ (InFetch(p) /\ pc'[p] = "idle" /\ ret'[p].kind = "stored") =>
                    cache' = (IF redis = "up"
                              THEN [cache EXCEPT ![wallet[p].id] = now + BALANCES_TTL]
                              ELSE cache)
            /\ FetchFails(p) => UNCHANGED <<balances, history>>]_vars

\* a fetch has returned its stored rows, current and history rows are in the
\* tables and the key is fresh
C2_Witness ==
    \E p \in Procs :
        /\ pc[p] = "idle" /\ ret[p].kind = "stored" /\ ret[p].val # {}
        /\ \A b \in ret[p].val : b \in balances /\ cache[b.wallet_id] > now
        /\ history # {}

\* a fetch of wallet w committed within the TTL window and no other worker is
\* still inside a request on w
SucceededWithinTtl(p, w) ==
    /\ \E h \in HistoryOf(w) : now - h.recorded_at < BALANCES_TTL
    /\ \A q \in Procs \ {p} : wallet[q].id # w

\* this step is worker p returning through the cached path: no adapter call,
\* the persisted rows as the answer, nothing written
ReturnsCached(p) ==
    /\ pc'[p] = "idle"
    /\ calls[p] = 0
    /\ ret'[p] = [kind |-> "cached", val |-> BalancesOf(wallet[p].id)]
    /\ UNCHANGED <<balances, history, cache>>

\* C3 as stated: a non-forced fetch within the TTL window of a successful one
\* makes no adapter call and returns the persisted rows.
C3_SecondCallCached ==
    [][\A p \in Procs :
        (/\ pc[p] = "cache_check" /\ ~force[p] /\ StepOf(p)
         /\ SucceededWithinTtl(p, wallet[p].id)) => ReturnsCached(p)]_vars

\* C3 amended: a non-forced fetch that finds the key unexpired in a cache
\* store that answers makes no adapter call and returns the persisted rows.
C3_FreshKeyCached ==
    [][\A p \in Procs :
        (/\ pc[p] = "cache_check" /\ ~force[p] /\ StepOf(p)
         /\ redis = "up" /\ cache[wallet[p].id] > now) => ReturnsCached(p)]_vars

\* a fetch has returned the stored rows of a wallet through the cached path
C3_Witness ==
    \E p \in Procs :
        /\ pc[p] = "idle" /\ ret[p].kind = "cached" /\ ret[p].val # {}
        /\ ret[p].val \subseteq balances

\* C4: a forced fetch always leaves the cache check for the chain adapter,
\* fresh key or not, and never returns through the cached path.
C4_ForceBypassesCache ==
    [][\A p \in Procs :
        /\ (pc[p] = "cache_check" /\ force[p] /\ StepOf(p)) =>
                pc'[p] = "adapter" /\ UNCHANGED <<balances, history, cache>>
        /\ (InFetch(p) /\ force[p] /\ pc'[p] = "idle") => ret'[p].kind # "cached"
        /\ (pc[p] = "adapter" /\ pc'[p] = "store") => calls'[p] = calls[p] + 1]_vars

\* a forced fetch has called the adapter while the key of its wallet is fresh
C4_Witness ==
    \E p \in Procs :
        /\ pc[p] = "store" /\ force[p] /\ calls[p] = 1
        /\ redis = "up" /\ cache[wallet[p].id] > now

\* C5: a fetch that fails leaves the cache store as it was: the failing step
\* and every earlier step of the call change no key.
C5_FailedFetchKeepsCache ==
    [][\A p \in Procs :
        /\ FetchFails(p) => cache' = cache
        /\ (InFetch(p) /\ StepOf(p) /\ pc[p] # "committed") => cache' = cache]_vars

\* a fetch has failed in the adapter while a key is fresh, and the key is still fresh
C5_Witness ==
    \E p \in Procs :
        /\ pc[p] = "idle" /\ ret[p].kind = "error" /\ ret[p].val = "adapter"
        /\ \E w \in WalletIds : cache[w] > now

\* C6: a successful non-cached fetch leaves exactly one balances row per
\* returned symbol and adds exactly one history row per returned symbol.
C6_OneRowPerSymbol ==
    [][\A p \in Procs :
        FetchCommits(p) =>
            /\ \A i \in 1..Len(pending[p]) :
                  Cardinality({b \in balances' : /\ b.wallet_id = wallet[p].id
                                                /\ b.token_symbol = pending[p][i].symbol}) = 1
            /\ Cardinality({h \in history' : h.wallet_id = wallet[p].id})
                 = Cardinality(HistoryOf(wallet[p].id)) + Len(pending[p])]_vars

\* C7: at most one balances row per (wallet, token_symbol, token_address).
C7_UniqueBalanceRow ==
    \A a, b \in balances :
        (/\ a.wallet_id = b.wallet_id
         /\ a.token_symbol = b.token_symbol
         /\ a.token_address = b.token_address) => a = b

Newest(rows) == {h \in rows : \A g \in rows : g.recorded_at <= h.recorded_at}

\* C8: once two successful fetches have stored a symbol of a wallet, there is
\* one balances row for it, updated after the first fetch, with the balance of
\* the latest fetch.
C8_UpsertTwice ==
    \A w \in WalletIds, s \in TokenSymbols :
        LET H == {h \in HistoryOf(w) : h.token_symbol = s}
            B == ExistingBalances(w, s)
        IN (Cardinality(H) >= 2 /\ \A p \in Procs : wallet[p].id # w) =>
              /\ Cardinality(B) = 1
              /\ \A b \in B :
                    /\ \E h \in H : b.last_updated > h.recorded_at
                    /\ \E h \in Newest(H) : b.balance = h.balance

\* C9: balance_history is append-only: while its wallet exists a history row
\* stays as it is, and a row goes only with the delete of its wallet.
C9_HistoryAppendOnly ==
    [][\A h \in history :
        /\ (\E w \in wallets' : w.id = h.wallet_id) => h \in history'
        /\ h \notin history' => \E p \in Procs : DeleteCommits(p) /\ wallet[p].id = h.wallet_id]_vars

\* a wallet has two history rows of one symbol: a second fetch appended its row
C9_Witness ==
    \E w \in WalletIds, s \in TokenSymbols :
        Cardinality({h \in HistoryOf(w) : h.token_symbol = s}) >= 2

\* C10: a balances row appears, changes or goes only in the commit of a fetch
\* of its wallet or in the delete of its wallet; every other step (create,
\* reads, cached and failed fetches) leaves every row as it is.
C10_OnlyRefreshChangesBalances ==
    [][\A b \in (balances \ balances') \cup (balances' \ balances) :
        \E p \in Procs :
            /\ wallet[p].id = b.wallet_id
            /\ FetchCommits(p) \/ DeleteCommits(p)]_vars

\* a read or a cached fetch has answered while rows are stored
C10_Witness ==
    \E p \in Procs :
        /\ pc[p] = "idle" /\ ret[p].kind \in {"cached", "balances", "portfolio"}
        /\ balances # {}

\* this step is worker p taking a request
Begins(p) == pc[p] = "idle" /\ requests'[p] = requests[p] + 1

\* this step is worker p's fetch raising at the wallet lookup
FetchNotFound(p) ==
    Begins(p) /\ ret'[p].kind = "error" /\ ret'[p].val = "not_found"

\* C11: a fetch of an unknown wallet id ends at the lookup with not-found: it
\* is never past the lookup without the wallet row it found (so no cache
\* lookup, adapter or price call runs for it), and the failing step changes
\* no table row and no cache key.
C11_UnknownWalletNotFound ==
    [][\A p \in Procs :
        /\ (Begins(p) /\ pc'[p] = "cache_check") => wallet'[p] \in wallets
        /\ FetchNotFound(p) =>
              /\ pc'[p] = "idle" /\ calls'[p] = 0 /\ pending'[p] = <<>>
              /\ UNCHANGED <<wallets, balances, history, cache>>]_vars

\* a fetch of an unknown id has failed with not-found while another wallet,
\* with stored rows and a cache key, exists
C11_Witness ==
    \E p \in Procs :
        /\ pc[p] = "idle" /\ ret[p].kind = "error" /\ ret[p].val = "not_found"
        /\ wallets # {} /\ balances # {}

\* this step is worker p's create_wallet raising at the validation
CreateRejects(p) ==
    /\ Begins(p) /\ ret'[p].kind = "error"
    /\ ret'[p].val \in {"unsupported_chain", "invalid_address"}

\* C12: a create_wallet that fails the validation (unsupported chain, or an
\* address the chain's adapter rejects) writes nothing: the wallets table is
\* the same after the step, and every row that does enter the table has a
\* supported chain and an address its adapter accepts, in normal form.
C12_RejectedCreateWritesNothing ==
    [][/\ \A p \in Procs :
            CreateRejects(p) => UNCHANGED <<wallets, balances, history, nextWallet>>
       /\ \A w \in wallets' \ wallets :
            \/ w.chain = "ethereum" /\ w.address = "0xAa"
            \/ w.chain = "solana" /\ w.address = "So1"]_vars

\* a create_wallet with an unsupported chain has failed while a wallet is registered
C12_Witness ==
    \E p \in Procs :
        /\ pc[p] = "idle" /\ ret[p].kind = "error" /\ ret[p].val = "unsupported_chain"
        /\ wallets # {}

\* this step is worker p's create_wallet failing on a registered pair
CreateDuplicate(p) ==
    Begins(p) /\ ret'[p].kind = "error" /\ ret'[p].val = "already_exists"

\* C13: no two wallets share an (address, chain) pair after any step, and a
\* create_wallet of a registered pair fails and leaves the wallets table as it was.
C13_UniqueAddressChain ==
    [][/\ \A a, b \in wallets' :
            (a.address = b.address /\ a.chain = b.chain) => a = b
       /\ \A p \in Procs :
            CreateDuplicate(p) => wallets # {} /\ UNCHANGED <<wallets, balances, history, nextWallet>>]_vars

\* a create_wallet of a registered pair has failed and the pair is registered once
C13_Witness ==
    \E p \in Procs :
        /\ pc[p] = "idle" /\ ret[p].kind = "error" /\ ret[p].val = "already_exists"
        /\ Cardinality(wallets) = 1

\* C14: every Balance and BalanceHistory row references an existing wallet;
\* once a wallet is deleted no row with its id is in either table, whatever
\* fetch of it was in flight.
C14_RowsReferenceWallet ==
    /\ \A b \in balances : WalletById(b.wallet_id) # {}
    /\ \A h \in history : WalletById(h.wallet_id) # {}

\* a delete has returned true while a fetch of the same wallet, past its
\* lookup, holds uncommitted writes for it
C14_Witness ==
    \E p, q \in Procs :
        /\ pc[p] = "store" /\ pending[p] # <<>>
        /\ WalletById(wallet[p].id) = {}
        /\ pc[q] = "idle" /\ ret[q].kind = "deleted" /\ ret[q].val = TRUE

\* with the store unreachable every cache operation is a no-op with a negative result
CacheDegrades ==
    redis = "down" =>
        /\ ~CacheAccepts
        /\ CacheClearPattern = cache
        /\ \A k \in WalletIds :
              /\ ~CacheGet(k)
              /\ CacheSet(k, BALANCES_TTL) = cache
              /\ CacheDelete(k) = cache

\* C15: with the store unreachable every cache operation is a no-op with a
\* negative result; no handler step that calls the cache raises, and with the
\* store unreachable the fetch goes on as after a miss, the committed fetch
\* returns its rows and the delete goes on to its commit, no key changing.
C15_CacheDegradesToNoOp ==
    [][/\ CacheDegrades
       /\ redis = "down" => cache' = cache
       /\ \A p \in Procs :
            (pc[p] \in {"cache_check", "committed", "del_cache"} /\ StepOf(p)) =>
                /\ ret'[p].kind # "error"
                /\ UNCHANGED <<wallets, balances, history>>
                /\ redis = "down" =>
                      /\ pc[p] = "cache_check" => pc'[p] = "adapter"
                      /\ pc[p] = "committed" => pc'[p] = "idle" /\ ret'[p].kind = "stored"
                      /\ pc[p] = "del_cache" => pc'[p] = "del_commit"]_vars

\* with the store unreachable a fetch has committed and returned its rows, no key set
C15_Witness ==
    /\ redis = "down"
    /\ \A k \in WalletIds : cache[k] = 0
    /\ \E p \in Procs :
          /\ pc[p] = "idle" /\ ret[p].kind = "stored" /\ ret[p].val # {}
          /\ ret[p].val \subseteq balances

\* C16: list_balances and summarize answer with the committed rows in every
\* cache state: the answer is the rows of the tables, whatever the key of the
\* wallet and the state of the store are, and the read changes neither.
C16_ReadsIgnoreCache ==
    [][\A p \in Procs :
        /\ (Begins(p) /\ ret'[p].kind = "balances") =>
              /\ ret'[p].val.rows = BalancesOf(ret'[p].val.wallet_id)
              /\ UNCHANGED <<wallets, balances, history, cache>>
        /\ (Begins(p) /\ ret'[p].kind = "portfolio") =>
              /\ ret'[p].val = PortfolioSummary
              /\ UNCHANGED <<wallets, balances, history, cache>>]_vars

\* list_balances has answered with the stored rows of a wallet whose key is
\* absent or expired, or whose store is unreachable
C16_Witness ==
    \E p \in Procs :
        /\ pc[p] = "idle" /\ ret[p].kind = "balances"
        /\ ret[p].val.rows # {} /\ ret[p].val.rows = BalancesOf(ret[p].val.wallet_id)
        /\ ~CacheGet(ret[p].val.wallet_id)

\* the usd values a row can hold
UsdValues == {a * pr : a \in Amounts, pr \in Prices \ {None}}

RECURSIVE CountedUsd(_, _)
\* the sum of usd_value over rows, null as 0, counted value by value
CountedUsd(vals, rows) ==
    IF vals = {} THEN 0
    ELSE LET v == CHOOSE x \in vals : TRUE
         IN v * Cardinality({b \in rows : b.usd_value = v}) + CountedUsd(vals \ {v}, rows)

\* C17: in every database state the summary has total_wallets = number of
\* wallets, one entry per wallet whose total is the sum of usd_value over the
\* wallet's Balance rows with null as 0, and total_usd_value = the sum of
\* usd_value over the rows of all wallets, which is the sum of the entries.
C17_SummaryTotals ==
    LET s == PortfolioSummary
    IN /\ s.total_wallets = Cardinality(wallets)
       /\ Cardinality(s.wallets) = Cardinality(wallets)
       /\ \A w \in wallets : \E e \in s.wallets :
             e.id = w.id /\ e.total_usd_value = CountedUsd(UsdValues, BalancesOf(w.id))
       /\ s.total_usd_value =
             CountedUsd(UsdValues, {b \in balances : \E w \in wallets : w.id = b.wallet_id})

\* summarize has answered for two wallets, one with an unpriced row and one
\* with a priced row: the grand total is the priced row's value
C17_Witness ==
    \E p \in Procs :
        /\ pc[p] = "idle" /\ ret[p].kind = "portfolio"
        /\ ret[p].val.total_wallets = 2 /\ ret[p].val.total_usd_value = 4
        /\ \E e \in ret[p].val.wallets : e.total_usd_value = 0
        /\ \E b \in balances : b.usd_value = None

\* C18: summarize is a pure read: the step that answers it calls no adapter,
\* changes no table row, no id counter and no cache key, and its answer is
\* the summary of the database state, the same before and after the step.
C18_SummaryPureRead ==
    [][\A p \in Procs :
        (Begins(p) /\ ret'[p].kind = "portfolio") =>
            /\ pc'[p] = "idle" /\ calls'[p] = 0 /\ pending'[p] = <<>>
            /\ UNCHANGED <<wallets, balances, history, cache, nextId, nextWallet>>
            /\ ret'[p].val = PortfolioSummary
            /\ PortfolioSummary' = PortfolioSummary]_vars

\* summarize has answered for two wallets with stored rows while a key is fresh
C18_Witness ==
    \E p \in Procs :
        /\ pc[p] = "idle" /\ ret[p].kind = "portfolio"
        /\ ret[p].val = PortfolioSummary /\ ret[p].val.total_wallets = 2
        /\ balances # {} /\ history # {}
        /\ \E k \in WalletIds : cache[k] > now

\* C19: no step of a fetch of wallet A (lookup to return) changes a Balance
\* row, a BalanceHistory row or the cache key of another wallet B, so B's
\* subtotal in the portfolio view stays the same.
C19_FetchTouchesOwnWalletOnly ==
    [][\A p \in Procs :
        (InFetch(p) /\ StepOf(p)) =>
            \A w \in WalletIds \ {wallet[p].id} :
                /\ {b \in balances' : b.wallet_id = w} = BalancesOf(w)
                /\ {h \in history' : h.wallet_id = w} = HistoryOf(w)
                /\ cache'[w] = cache[w]
                /\ SumUsd({b \in balances' : b.wallet_id = w}) = SumUsd(BalancesOf(w))]_vars

\* a fetch of one wallet has stored its rows while another wallet holds a
\* priced row, a history row and a fresh key
C19_Witness ==
    \E p \in Procs :
        /\ pc[p] = "idle" /\ ret[p].kind = "stored" /\ ret[p].val # {}
        /\ \E b \in balances, h \in history :
              /\ b.wallet_id = h.wallet_id
              /\ b.wallet_id \notin {r.wallet_id : r \in ret[p].val}
              /\ b.usd_value # None
              /\ cache[b.wallet_id] > now

\* this step is one iteration of worker p's loop over the returned symbols
StoresSymbol(p) ==
    pc[p] = "store" /\ pc'[p] = "store" /\ Len(pending'[p]) = Len(pending[p]) + 1

\* C20: a symbol without a price is stored all the same: the loop iteration
\* keeps the fetched balance and takes usd_value null (or balance * price),
\* leaving the writes of the symbols before it as they are; the commit stores
\* a Balance row and a history row with that balance and usd_value null, the
\* fetch returns its rows, and the sum over the wallet's rows counts null as 0.
C20_MissingPriceStoredAsNull ==
    [][\A p \in Procs :
        /\ StoresSymbol(p) =>
              LET item == Head(token_balances[p])
                  n == Len(pending'[p])
              IN /\ pending'[p][n].symbol = item.symbol
                 /\ pending'[p][n].balance = item.balance
                 /\ pending'[p][n].usd_value \in
                        {None} \cup {item.balance * pr : pr \in Prices \ {None}}
                 /\ \A i \in 1..Len(pending[p]) : pending'[p][i] = pending[p][i]
        /\ FetchCommits(p) =>
              /\ ret'[p].kind = "stored"
              /\ \A i \in 1..Len(pending[p]) :
                    pending[p][i].usd_value = None =>
                        /\ \E b \in ret'[p].val :
                              /\ b \in balances' /\ b.token_symbol = pending[p][i].symbol
                              /\ b.balance = pending[p][i].balance /\ b.usd_value = None
                        /\ \E h \in history' \ history :
                              /\ h.token_symbol = pending[p][i].symbol
                              /\ h.balance = pending[p][i].balance /\ h.usd_value = None
              /\ LET rows == {b \in balances' : b.wallet_id = wallet[p].id}
                 IN SumUsd(rows) = SumUsd({b \in rows : b.usd_value # None})]_vars

\* a fetch whose symbol had no price has returned: the Balance row and the
\* history row hold the fetched balance and a null usd_value
C20_Witness ==
    \E p \in Procs :
        /\ pc[p] = "idle" /\ ret[p].kind = "stored"
        /\ \E b \in ret[p].val, h \in history :
              /\ b \in balances /\ b.usd_value = None /\ b.balance > 0
              /\ h.wallet_id = b.wallet_id /\ h.token_symbol = b.token_symbol
              /\ h.balance = b.balance /\ h.usd_value = None
              /\ SumUsd(BalancesOf(b.wallet_id)) = 0

TakesCachedPath(p) ==
    InFetch(p) /\ pc'[p] = "idle" /\ ret'[p].kind = "cached"

AllOf(s, set) == \A i \in 1..Len(s) : s[i] \in set

\* all but the last element
Front(s) == SubSeq(s, 1, Len(s) - 1)

\* C22: the price oracle never fails the caller: no call of get_price or
\* get_prices ends with an error; after a timeout, an HTTP error or a
\* malformed answer the symbol (every symbol of the batch) is reported
\* absent; a symbol without CoinGecko id is reported absent, and when no
\* requested symbol has an id no request is sent.
C22_OracleNeverRaises ==
    call.service = "price" =>
        /\ outcome.kind # "error"
        /\ decision \notin {"retry", "raise"}
        /\ outcome.kind = "value" =>
              IF call.fn = "get_price"
              THEN /\ tries[Len(tries)] \in Failures => outcome.val = None
                   /\ Upper(call.symbols[1]) \notin TOKEN_MAP =>
                         outcome.val = None /\ sent = 0
              ELSE /\ tries[Len(tries)] \in Failures =>
                         /\ outcome.val # {}
                         /\ \A kv \in outcome.val : kv[2] = None
                   /\ CoingeckoIds(call.symbols) = {} => sent = 0
                   /\ \A i \in 1..Len(call.symbols) :
                         Upper(call.symbols[i]) \notin TOKEN_MAP =>
                             /\ \E kv \in outcome.val :
                                   kv[1] \in {call.symbols[i], Upper(call.symbols[i])}
                             /\ \A kv \in outcome.val :
                                   kv[1] \in {call.symbols[i], Upper(call.symbols[i])} =>
                                       kv[2] = None

\* get_price of a mapped symbol has met a timeout and returned absent after
\* its one request
C22_Witness ==
    /\ call.service = "price" /\ call.fn = "get_price"
    /\ Upper(call.symbols[1]) \in TOKEN_MAP
    /\ tries = <<"timeout">> /\ sent = 1
    /\ outcome = [kind |-> "value", val |-> None]

\* C23 (as claimed): for every adapter an operation is attempted at most 3
\* times; one whose every attempt met a transient transport error ends after
\* exactly 3 attempts with the error surfaced; one that succeeds after
\* transient failures returns with no error.
C23_AdaptersRetryThenSurface ==
    (call.service \in Services /\ tries # <<>>) =>
        /\ Len(tries) <= MAX_ATTEMPTS
        /\ (decision \in {"return", "raise"} /\ AllOf(tries, Transient)) =>
              /\ Len(tries) = MAX_ATTEMPTS
              /\ decision = "raise"
              /\ outcome.kind = "error"
        /\ (tries[Len(tries)] = "ok" /\ AllOf(Front(tries), Transient)) =>
              decision = "return" /\ outcome.kind # "error"

\* C24 (as claimed): with the client of an adapter not established, every
\* balance operation raises on its first attempt, is not attempted again,
\* sends no request and never returns a value.
C24_ConfigErrorFailsFast ==
    (call.service \in Services /\ ~call.configured) =>
        /\ sent = 0
        /\ outcome.kind # "value"
        /\ Len(tries) <= 1
        /\ tries # <<>> => decision = "raise" /\ outcome.kind = "error"

\* C28 (as claimed): an adapter operation is attempted again only after a
\* transient transport error; an attempt that ends in a configuration,
\* validation or decoding error is the only attempt and its error is surfaced.
C28_RetryOnlyTransient ==
    (call.service \in Services /\ tries # <<>>) =>
        /\ AllOf(Front(tries), Transient)
        /\ tries[Len(tries)] \in {"config", "validation", "malformed"} =>
              /\ Len(tries) = 1
              /\ decision = "raise"
              /\ outcome.kind = "error"

\* C29 (as claimed): an oracle call that reports a symbol absent after a
\* transient upstream failure has made 3 attempts.
C29_OracleRetries ==
    (/\ call.service = "price"
     /\ outcome.kind = "value"
     /\ tries # <<>>
     /\ tries[Len(tries)] \in Transient) => Len(tries) = MAX_ATTEMPTS

\* this step is the oracle returning to its caller
OracleAnswers ==
    call.service = "price" /\ outcome.kind = "running" /\ outcome'.kind = "value"

\* C30 (as claimed): get_price and get_prices read the key of each requested
\* symbol first: a call whose symbols are all cached and live returns without
\* sending a request; and a call that sent a request and resolved a symbol
\* has stored that price under the symbol's key with TTL 300.
C30_PriceCacheFirst ==
    [][OracleAnswers =>
        /\ (\A i \in 1..Len(call.symbols) : PriceCacheGet(call.symbols[i]) # None) =>
              sent' = sent
        /\ (sent' > sent /\ redis = "up") =>
              IF call.fn = "get_price"
              THEN outcome'.val # None =>
                      price_cache'[call.symbols[1]] =
                          [price |-> outcome'.val, expires |-> now + PRICE_TTL]
              ELSE \A kv \in outcome'.val :
                      kv[2] # None =>
                          price_cache'[kv[1]] =
                              [price |-> kv[2], expires |-> now + PRICE_TTL]]_vars

\* C31 (as claimed): the mapping get_prices returns has an entry for every
\* requested symbol, under the symbol exactly as requested, whether the
\* request succeeded, failed or was not made.
C31_EntryPerRequestedSymbol ==
    (call.service = "price" /\ call.fn = "get_prices" /\ outcome.kind = "value") =>
        \A i \in 1..Len(call.symbols) :
            \E kv \in outcome.val : kv[1] = call.symbols[i]

\* ------------------------------------------- unit conversion: claims
\* C32 (as claimed): the amount returned for a token is the raw amount
\* divided by 10^decimals with the token's own decimals: 18 for ETH and
\* STRK, 9 for SOL, 6 for ATOM, TIA, USDC and USDT.
C32_OwnDecimals ==
    computed.kind = "amount" =>
        LET own == CASE asked.token \in {"ETH", "STRK"} -> 18
                     [] asked.token = "SOL" -> 9
                     [] OTHER -> 6
        IN /\ computed.coefficient = Reduced(asked.raw, 0 - own).coefficient
           /\ computed.exponent = Reduced(asked.raw, 0 - own).exponent

\* hex digit j, counted from the right, of an int given by its limbs
HexDigitOf(x, j) == (Limb(x, (j + 3) \div 4) \div (16 ^ ((j - 1) % 4))) % 16

\* C33: the Starknet balance put together from the result words carries
\* the low word in its lowest 128 bits and the high word (0 when the result
\* has one word) in the next 128 bits, digit for digit, and nothing above.
C33_LowHighBitForBit ==
    computed.kind = "raw" =>
        LET low == asked.words[1]
            high == IF Len(asked.words) > 1 THEN asked.words[2] ELSE <<0>>
        IN /\ \A j \in 1..(BALANCE_SHIFT \div 4) :
                /\ HexDigitOf(computed.limbs, j) = HexDigitFromRight(low, j)
                /\ HexDigitOf(computed.limbs, BALANCE_SHIFT \div 4 + j) =
                      HexDigitFromRight(high, j)
           /\ \A j \in (BALANCE_SHIFT \div 2 + 1)..(4 * Len(computed.limbs)) :
                HexDigitOf(computed.limbs, j) = 0

\* both words full: every bit of the 256-bit balance is set
C33_Witness ==
    /\ computed.kind = "raw"
    /\ asked.words = <<[i \in 1..32 |-> 15], [i \in 1..32 |-> 15]>>
    /\ \A j \in 1..64 : HexDigitOf(computed.limbs, j) = 15

\* C34: a fetch that goes past the cache calls one adapter, once: the step
\* that leaves the adapter position with a result belongs to a wallet whose
\* chain has a branch, is the call's first adapter call, and its result
\* carries only the native symbol of the wallet's own chain; rows are
\* written only after that one call; and a fetch of a stored wallet whose
\* chain has no branch leaves the adapter position only by failing with
\* unsupported-chain, with no adapter call and no table changed.
C34_OwnAdapterOnce ==
    [][\A p \in Procs :
        /\ calls'[p] <= 1
        /\ pc'[p] \in {"store", "committed"} => calls'[p] = 1
        /\ (pc[p] = "adapter" /\ pc'[p] = "store") =>
              /\ wallet[p].chain \in {"ethereum", "solana"}
              /\ calls[p] = 0
              /\ \A i \in 1..Len(token_balances'[p]) :
                    token_balances'[p][i].symbol =
                        (CASE wallet[p].chain = "ethereum" -> "ETH"
                           [] wallet[p].chain = "solana" -> "SOL")
        /\ (pc[p] = "adapter" /\ wallet[p].chain \notin {"ethereum", "solana"}
                /\ pc'[p] # "adapter") =>
              /\ calls[p] = 0
              /\ pc'[p] = "idle"
              /\ ret'[p] = [kind |-> "error", val |-> "unsupported_chain"]
              /\ UNCHANGED <<wallets, balances, history>>]_vars

\* a fetch of the cosmos wallet has failed with unsupported-chain and left
\* no row, while a fetch of the solana wallet holds the SOL result of its
\* one adapter call
C34_Witness ==
    \E p, q \in Procs :
        /\ ret[p] = [kind |-> "error", val |-> "unsupported_chain"]
        /\ BalancesOf(2) = {} /\ HistoryOf(2) = {}
        /\ pc[q] = "store" /\ wallet[q].chain = "solana" /\ calls[q] = 1
        /\ token_balances[q] # <<>> /\ token_balances[q][1].symbol = "SOL"

\* this step is worker p answering a balance-history request
AnswersHistory(p) == Begins(p) /\ ret'[p].kind = "history"

\* C35: a balance-history answer holds only history rows of the requested
\* wallet (and of the requested symbol when one is given), no row twice,
\* ordered by recorded_at from newest to oldest; it has limit rows, or all
\* matching rows when there are fewer, and no matching row left out is
\* newer than a row returned.
C35_HistoryNewestFirst ==
    [][\A p \in Procs :
        AnswersHistory(p) =>
            LET answer == ret'[p].val
                rows == answer.rows
                matching == {h \in history :
                                /\ h.wallet_id = answer.wallet_id
                                /\ answer.token_symbol # "" =>
                                      h.token_symbol = answer.token_symbol}
                n == Cardinality(matching)
            IN /\ \A i \in 1..Len(rows) : rows[i] \in matching
               /\ \A i, j \in 1..Len(rows) :
                     /\ i # j => rows[i] # rows[j]
                     /\ i < j => rows[i].recorded_at >= rows[j].recorded_at
               /\ Len(rows) = (IF n < answer.limit THEN n ELSE answer.limit)
               /\ \A h \in matching :
                     (\A i \in 1..Len(rows) : rows[i] # h) =>
                         \A i \in 1..Len(rows) : rows[i].recorded_at >= h.recorded_at]_vars

\* the wallet has an older and a newer history row, and the answer to a
\* request with limit 1 is the newer one
C35_Witness ==
    \E p \in Procs :
        /\ ret[p].kind = "history"
        /\ ret[p].val.limit = 1
        /\ Len(ret[p].val.rows) = 1
        /\ ret[p].val.rows[1] \in history
        /\ \E h \in HistoryOf(ret[p].val.wallet_id) :
              h.recorded_at < ret[p].val.rows[1].recorded_at
\* ------------------------------------- a fetch followed through its adapter
\* the worker whose fetch is followed through the adapter's attempts
Fetcher == 1

RECURSIVE Items(_)
\* token_balances.items(): the entries of the dict the adapter returned
Items(pairs) ==
    IF pairs = {} THEN <<>>
    ELSE LET kv == CHOOSE x \in pairs : TRUE
         IN <<[symbol |-> kv[1], balance |-> kv[2]]>> \o Items(pairs \ {kv})

\* the fetch enters <adapter>.get_wallet_balances(wallet.address)
FetchCallAdapter(p, configured) ==
    /\ pc[p] = "adapter"
    /\ calls[p] = 0
    /\ SupportedChain(wallet[p].chain)
    /\ Entered(wallet[p].chain, "get_wallet_balances", configured, TRUE)
    /\ calls' = [calls EXCEPT ![p] = 1]
    /\ UNCHANGED <<tables, cache, redis, now, nextId, nextWallet, conv, requests, pc,
                   wallet, force, token_balances, pending, ret>>

\* get_wallet_balances is over: its dict is looped over, its exception goes
\* to the except branch
FetchAdapterReturn(p) ==
    /\ pc[p] = "adapter"
    /\ calls[p] = 1
    /\ outcome.kind \in {"value", "error"}
    /\ IF outcome.kind = "value"
       THEN /\ token_balances' = [token_balances EXCEPT ![p] = Items(outcome.val)]
            /\ pc' = [pc EXCEPT ![p] = "store"]
            /\ UNCHANGED <<tables, cache, redis, now, nextId, nextWallet, net, conv,
                           requests, wallet, force, pending, calls, ret>>
       ELSE FetchRaise(p, "adapter")

\* the steps of the fetch once the wallet is found: the thread of the request
\* runs them one after the other
FetchProceeds(p) ==
    \/ FetchCacheCheck(p)
    \/ \E configured \in BOOLEAN : FetchCallAdapter(p, configured)
    \/ \E reply \in AdapterReplies : AdapterAttempt(reply)
    \/ FetchAdapterReturn(p)
    \/ \E usd_price \in Prices : FetchStore(p, usd_price)
    \/ FetchStoreError(p)
    \/ FetchCommit(p)
    \/ FetchCommitError(p)
    \/ FetchCacheSet(p)

NextLive ==
    \/ \E id \in WalletIds, f \in BOOLEAN : FetchLookup(Fetcher, id, f)
    \/ FetchCacheCheck(Fetcher)
    \/ \E configured \in BOOLEAN : FetchCallAdapter(Fetcher, configured)
    \/ \E reply \in AdapterReplies : AdapterAttempt(reply)
    \/ FetchAdapterReturn(Fetcher)
    \/ \E usd_price \in Prices : FetchStore(Fetcher, usd_price)
    \/ FetchStoreError(Fetcher)
    \/ FetchCommit(Fetcher)
    \/ FetchCommitError(Fetcher)
    \/ FetchCacheSet(Fetcher)
    \/ Tick
    \/ RedisFlap

\* a request that has begun goes on running: no step of it waits on another
\* request
SpecLive == InitStored /\ [][NextLive]_vars /\ WF_vars(FetchProceeds(Fetcher))

\* C36: a fetch that has found its wallet ends, with the rows or with an
\* error; on the way no operation of the adapter is attempted more than
\* MAX_ATTEMPTS times, and each turn of the loop takes one entry off the
\* dict still to be stored.
C36_FetchCompletes ==
    /\ [](Len(tries) <= MAX_ATTEMPTS)
    /\ [][(StepOf(Fetcher) /\ pc[Fetcher] = "store" /\ pc'[Fetcher] = "store") =>
            Len(token_balances'[Fetcher]) = Len(token_balances[Fetcher]) - 1]_vars
    /\ InFetch(Fetcher) ~>
            (pc[Fetcher] = "idle" /\ ret[Fetcher].kind \in {"stored", "cached", "error"})

\* a fetch ended with the rows after two failed attempts of the adapter
C36_Witness ==
    /\ pc[Fetcher] = "idle"
    /\ ret[Fetcher].kind = "stored"
    /\ ret[Fetcher].val # {}
    /\ Len(tries) = MAX_ATTEMPTS
    /\ tries[1] \in Transient
    /\ outcome.kind = "value"
\* C37: no step of a fetch removes a Balance row or leaves one with balance
\* 0, and the commit of a fetch leaves every row of its wallet whose symbol
\* the adapter did not return as it was (balance, usd_value, last_updated),
\* with no history row added for that symbol; the other steps of a fetch
\* change no row at all.
C37_FetchKeepsOmittedRows ==
    [][\A p \in Procs :
        (InFetch(p) /\ StepOf(p)) =>
            LET wid == wallet[p].id
                returned == IF FetchCommits(p)
                            THEN {pending[p][i].symbol : i \in 1..Len(pending[p])}
                            ELSE {}
            IN /\ \A b \in balances : \E after \in balances' :
                      after.id = b.id /\ after.balance > 0
               /\ \A b \in balances :
                      (b.wallet_id # wid \/ b.token_symbol \notin returned) =>
                          /\ b \in balances'
                          /\ {h \in history' : h.wallet_id = b.wallet_id
                                                /\ h.token_symbol = b.token_symbol}
                               = {h \in history : h.wallet_id = b.wallet_id
                                                   /\ h.token_symbol = b.token_symbol}]_vars

\* a fetch of a wallet with a stored row has committed with nothing returned:
\* the row is still there with an earlier last_updated
C37_Witness ==
    \E p \in Procs :
        /\ pc[p] = "committed"
        /\ ret[p].kind = "stored"
        /\ ret[p].val = {}
        /\ \E b \in BalancesOf(wallet[p].id) : b.balance > 0 /\ b.last_updated < now - 1
\* the history rows of a wallet and symbol with the greatest recorded_at
NewestHistory(wid, symbol) ==
    LET of == {h \in history : h.wallet_id = wid /\ h.token_symbol = symbol}
    IN {h \in of : \A g \in of : g.recorded_at <= h.recorded_at}

\* C38: whenever no fetch is in flight, every Balance row carries the
\* balance and usd_value of a newest BalanceHistory row of its wallet and
\* symbol.
C38_BalanceIsNewestHistory ==
    (\A p \in Procs : ~InFetch(p)) =>
        \A b \in balances :
            \E h \in NewestHistory(b.wallet_id, b.token_symbol) :
                h.balance = b.balance /\ h.usd_value = b.usd_value
====
